---- MODULE Spec2Model ----
(***************************************************************************)
(* Model of the Smart FTP extension's synchronization core:                *)
(*   FTPManager  (connection session, upload queue, delete, sync)          *)
(*   FileWatcher (debounced change events, save events)                    *)
(*                                                                         *)
(* JavaScript runs one handler at a time; a handler runs until it awaits.  *)
(* Each action below is one such run: an entry point up to its first       *)
(* await, or the continuation after an awaited transport operation or      *)
(* timer, up to the next await.  Code that runs synchronously inside a     *)
(* handler (connect(), processUploadQueue(), scheduleReconnect(), ...) is  *)
(* an operator on a snapshot record of the manager's fields.               *)
(***************************************************************************)
EXTENDS Integers, Sequences, FiniteSets, TLC

\* ---------------------------------------------------------------- bounds
MaxClients == 2      \* transport client objects alive at the same time
MaxTasks   == 2      \* upload tasks created in one behaviour
MaxDel     == 1      \* remote delete requests awaiting the transport
MaxSync    == 2      \* sync/download bodies awaiting the transport
MaxSyncOps == 1      \* transport operations of one sync after its first list
MaxEvents  == 3      \* watcher events counted in one burst for a path
MaxTimers  == 4      \* debounce timer handles armed at the same time

\* ------------------------------------------------------ program constants
maxRetries == 3

\* ------------------------------------------------------------- the paths
\* A local path is the sequence of its segments below the workspace root.
RootFile   == <<"a.txt">>
NestedFile == <<"src", "b.txt">>
GoneFile   == <<"gone.txt">>
LogFile    == <<"app.log">>
Paths      == {RootFile, NestedFile, GoneFile, LogFile}
NoPath     == <<>>

\* The workspace root is /ws/proj.  A path outside it is written as
\* path.relative(workspaceRoot, path) gives it: it starts with "..".
WorkspaceRoot == <<"ws", "proj">>
SiblingFile   == <<"..", "proj-old", "c.txt">>     \* /ws/proj-old/c.txt
FarFile       == <<"..", "..", "tmp", "d.txt">>    \* /tmp/d.txt
Outside       == {SiblingFile, FarFile}
AllPaths      == Paths \cup Outside

\* Files of the workspace below a directory of the default ignore list.
DepFile    == <<"node_modules", "pkg", "index.js">>
GitFile    == <<".git", "config">>
VscodeFile == <<".vscode", "settings.json">>
UnderIgnoredDir == {DepFile, GitFile, VscodeFile}
\* A file the default ignore list names and chokidar's ignored list does not.
EnvFile    == <<".env">>

Clients == 1..MaxClients
TaskIds == 1..MaxTasks
Handles == 1..MaxTimers

\* The configurations: 0 is null; configuration 1 has uploadOnSave,
\* watcher.autoUpload and watcher.autoDelete set, no watcher.ignore* flag,
\* no ignore list and the remote root "/"; configuration 2 differs from it
\* in uploadOnSave and watcher.autoUpload, which are false, and in its host.
Configs == {1, 2}
\* host, port and credentials: each configuration names its own server
Host(c)         == c
UploadOnSave(c) == c = 1
AutoUpload(c)   == c = 1
AutoDelete(c)   == c \in {1, 2}
IgnoreDelete(c) == FALSE

VARIABLES
  config,                 \* FTPManager.config: 0 = null, otherwise a configuration
  client,                 \* FTPManager.client: 0 = null, otherwise a client object
  cstate,                 \* state of every transport client object
  connected,              \* connectionStatus.connected
  connecting,             \* connectionStatus.connecting
  statusError,            \* connectionStatus.error is set
  uploadQueue,            \* FTPManager.uploadQueue
  isProcessingQueue,      \* FTPManager.isProcessingQueue
  reconnectTimer,         \* FTPManager.reconnectTimer is pending
  isSyncingOrDownloading, \* FTPManager.isSyncingOrDownloading
  conns,                  \* connect() calls suspended at an await
  drain,                  \* the processUploadQueue() call suspended at an await
  dels,                   \* deleteFile/deleteDirectory calls awaiting remove/removeDir
  syncs,                  \* sync/download calls awaiting list/downloadTo/downloadToDir
  nextTask,               \* number of the next upload task
  failLog,                \* per task: its retries at each terminal failure shown
  done,                   \* ids of the tasks whose upload succeeded
  accepted,               \* uploadFile calls for an existing, non-ignored file
  intentional,            \* disconnect() was the last call made by a caller
  delResult,              \* the delete call that returned in the last run: error, value
  sessionCall,            \* the connect command or reconnect timer of the last run, and
                          \* what its connect() returned
  gone,                   \* the local files deleted since construction
  syncReport,             \* what the syncServerToLocal call of the last run showed
  target,                 \* per client: the configuration its access() was called with
  pendingReconnects,      \* setTimeout callbacks of scheduleReconnect armed and not cleared
  isWatching,             \* FileWatcher.isWatching
  uploadDebounce,         \* FileWatcher.uploadDebounce: path -> timer handle, 0 = no entry
  timers,                 \* per timer handle: the path of the armed timer, or NoPath
  events,                 \* per path: watcher events of its burst (0 = cancelled or none)
  fired,                  \* per path: uploadFile calls its debounce timers made for the burst
  last,                   \* the watcher handler that ran last, its path, the timers it cleared
  remoteItems,            \* the listing of the synced remote folder: name -> entry
  localItems,             \* the synced local folder: name -> entry
  walk,                   \* the _recursiveSync call on the folder
  decided                 \* per sync run and name: what the run did with the entry

ftpVars == <<config, client, cstate, connected, connecting, statusError,
             uploadQueue, isProcessingQueue, reconnectTimer,
             isSyncingOrDownloading, conns, drain, dels, syncs, nextTask,
             failLog, done, accepted, intentional, delResult, sessionCall,
             gone, syncReport, target, pendingReconnects>>
watchVars == <<isWatching, uploadDebounce, timers, events, fired, last>>
vars == <<config, client, cstate, connected, connecting, statusError,
          uploadQueue, isProcessingQueue, reconnectTimer,
          isSyncingOrDownloading, conns, drain, dels, syncs, nextTask,
          failLog, done, accepted, intentional, delResult, sessionCall, gone,
          syncReport, target, pendingReconnects,
          isWatching, uploadDebounce, timers, events, fired, last,
          remoteItems, localItems, walk, decided>>
treeVars == <<remoteItems, localItems, walk, decided>>

\* --------------------------------------------------------------- helpers
NoTask    == [id |-> 0, path |-> NoPath, retries |-> 0]
NoReturn  == [error |-> "none", value |-> "none"]
NoCall    == [op |-> "none", value |-> "none"]
IdleDrain == [pc |-> "idle", task |-> NoTask, cl |-> 0]

\* The manager's fields as one record; overflow marks a run that needs more
\* objects than the bounds allow.
S == [config |-> config, client |-> client, cstate |-> cstate,
      connected |-> connected, connecting |-> connecting,
      statusError |-> statusError, uploadQueue |-> uploadQueue,
      isProcessingQueue |-> isProcessingQueue,
      reconnectTimer |-> reconnectTimer,
      isSyncingOrDownloading |-> isSyncingOrDownloading,
      conns |-> conns, drain |-> drain, dels |-> dels, syncs |-> syncs,
      nextTask |-> nextTask, failLog |-> failLog, done |-> done,
      gone |-> gone, returned |-> NoReturn, called |-> NoCall,
      reported |-> "none", target |-> target,
      pending |-> pendingReconnects,
      overflow |-> FALSE]

SeqClients(q) == {q[i].cl : i \in 1..Len(q)}

\* Client objects that some suspended call or the manager still refers to.
Referenced(s) ==
  {s.client} \cup {k.cl : k \in s.conns} \cup {s.drain.cl}
  \cup SeqClients(s.dels) \cup SeqClients(s.syncs)

\* Closed client objects nobody refers to are garbage.
Collect(s) ==
  [s EXCEPT !.cstate = [c \in Clients |->
      IF s.cstate[c] = "closed" /\ c \notin Referenced(s)
      THEN "unused" ELSE s.cstate[c]],
            !.target = [c \in Clients |->
      IF s.cstate[c] = "closed" /\ c \notin Referenced(s)
      THEN 0 ELSE s.target[c]]]

Commit(n) ==
  LET m == Collect(n) IN
  /\ ~m.overflow
  /\ config' = m.config
  /\ client' = m.client
  /\ cstate' = m.cstate
  /\ connected' = m.connected
  /\ connecting' = m.connecting
  /\ statusError' = m.statusError
  /\ uploadQueue' = m.uploadQueue
  /\ isProcessingQueue' = m.isProcessingQueue
  /\ reconnectTimer' = m.reconnectTimer
  /\ pendingReconnects' = m.pending
  /\ isSyncingOrDownloading' = m.isSyncingOrDownloading
  /\ conns' = m.conns
  /\ drain' = m.drain
  /\ dels' = m.dels
  /\ syncs' = m.syncs
  /\ nextTask' = m.nextTask
  /\ failLog' = m.failLog
  /\ done' = m.done
  /\ delResult' = m.returned
  /\ sessionCall' = m.called
  /\ gone' = m.gone
  /\ syncReport' = m.reported
  /\ target' = m.target
  /\ UNCHANGED treeVars

\* client.closed of the transport library: true unless the client's socket
\* is connected to a server.
Closed(s, c) == s.cstate[c] # "open"

\* this.client?.closed : undefined (falsy) when this.client is null.
ClientClosed(s) == s.client # 0 /\ Closed(s, s.client)

\* this.client.close()
CloseClient(s) ==
  IF s.client # 0 /\ ~Closed(s, s.client)
  THEN [s EXCEPT !.cstate[s.client] = "closed"]
  ELSE s

IsConnected(s) == s.connected /\ s.client # 0 /\ ~Closed(s, s.client)

\* (mutant) the timer is armed whatever the status and the pending timer
ScheduleReconnectUnguarded(s) ==
  IF s.client = 0 /\ ~s.statusError THEN s
  ELSE [s EXCEPT !.reconnectTimer = TRUE, !.pending = @ + 1]

ScheduleReconnect(s) ==
  IF s.connecting \/ s.reconnectTimer THEN s
  ELSE IF s.client = 0 /\ ~s.statusError THEN s
  ELSE [s EXCEPT !.reconnectTimer = TRUE, !.pending = @ + 1]

\* if (this.reconnectTimer) { clearTimeout(this.reconnectTimer); ... = null }
ClearReconnect(s) ==
  IF s.reconnectTimer
  THEN [s EXCEPT !.reconnectTimer = FALSE, !.pending = @ - 1]
  ELSE s

\* kind: "transient" (421, 426, 530, ECONNRESET, timeout, Not connected,
\* Connection closed), "notfound" (550) or "fatal" (anything else).
HandleFTPError(s, kind) ==
  IF kind = "transient"
  THEN ScheduleReconnect([s EXCEPT !.connected = FALSE])
  ELSE s


\* ------------------------------------------------------ connect/disconnect
FreeClients(s) == {c \in Clients : s.cstate[c] = "unused"}

\* new FTPClient(30000): a client object whose socket is not connected yet.
NewClient(s) ==
  IF FreeClients(s) = {} THEN [s EXCEPT !.overflow = TRUE]
  ELSE LET c == CHOOSE x \in FreeClients(s) : \A y \in FreeClients(s) : x <= y
       IN [s EXCEPT !.client = c, !.cstate[c] = "fresh"]

\* (mutant) connect() does not test whether a connect is in progress
ConnectResultIgnoresConnecting(s) ==
  IF s.config = 0 THEN "false"
  ELSE IF IsConnected(s) THEN "true"
  ELSE "pending"

\* What connect() does before it creates a client: "false" (no configuration,
\* or already connecting), "true" (already connected), or "pending".
ConnectResult(s) ==
  IF s.config = 0 THEN "false"
  ELSE IF s.connecting THEN "false"
  ELSE IF IsConnected(s) THEN "true"
  ELSE "pending"

\* connect() from the timer reset up to the await of client.access(); cont
\* names the call that awaits this connect ("none": nobody does).
ConnectBegin(s, cont) ==
  LET s1 == [ClearReconnect(s) EXCEPT !.connected = FALSE,
                      !.connecting = TRUE, !.statusError = FALSE]
      s2 == NewClient(CloseClient(s1))
  IN IF s2.overflow THEN s2
     ELSE [s2 EXCEPT !.conns = @ \cup
             {[pc |-> "access", cl |-> s2.client, cont |-> cont]},
                     !.target[s2.client] = s.config]

\* this.connect() whose promise nobody awaits.
Connect(s) ==
  IF ConnectResult(s) = "pending" THEN ConnectBegin(s, "none") ELSE s

\* the catch block of connect(), up to scheduleReconnect()
ConnectCatch(s) ==
  LET s1 == [s EXCEPT !.connected = FALSE, !.connecting = FALSE,
                      !.statusError = TRUE]
      s2 == [CloseClient(s1) EXCEPT !.client = 0]
  IN ScheduleReconnect(s2)

\* (mutant) the success status leaves connecting as it was
ConnectedStatusKeepsConnecting(s) ==
  [s EXCEPT !.connected = TRUE, !.statusError = FALSE]

\* the status assigned after the test listing succeeded
ConnectedStatus(s) ==
  [s EXCEPT !.connected = TRUE, !.connecting = FALSE, !.statusError = FALSE]

Disconnect(s) ==
  LET s1 == [CloseClient(ClearReconnect(s)) EXCEPT !.client = 0]
  IN IF s1.connected \/ s1.connecting
     THEN [s1 EXCEPT !.connected = FALSE, !.connecting = FALSE,
                     !.statusError = FALSE]
     ELSE s1

\* ------------------------------------------------------------ upload queue
\* PathUtils.getDirectoryPath(task.remotePath) below the remote root "/";
\* ensureRemoteDirectory does nothing for "/" and ".".
RemoteDir(path) == SubSeq(path, 1, Len(path) - 1)
NeedsEnsureDir(path) == RemoteDir(path) # <<>>

\* the end of processUploadQueue(): the loop was left
DrainExit(s) == [s EXCEPT !.isProcessingQueue = FALSE, !.drain = IdleDrain]

\* One pass of the while loop from its head to the first await.
DrainLoop(s) ==
  IF s.uploadQueue = <<>> THEN DrainExit(s)
  ELSE IF ~IsConnected(s)
       THEN Connect([s EXCEPT !.isProcessingQueue = FALSE, !.drain = IdleDrain])
  ELSE LET task == Head(s.uploadQueue)
       IN [s EXCEPT !.uploadQueue = Tail(@),
                    !.drain = [pc |-> IF NeedsEnsureDir(task.path)
                                      THEN "ensureDir" ELSE "upload",
                               task |-> task, cl |-> s.client]]

\* (mutant) the draining flag is not tested
DrainGuardIgnoresFlag(s) == s.uploadQueue # <<>>

\* May processUploadQueue() enter its loop?
DrainGuard(s) == ~s.isProcessingQueue /\ s.uploadQueue # <<>>

ProcessUploadQueue(s) ==
  IF ~DrainGuard(s) THEN s
  ELSE IF ~IsConnected(s) THEN Connect(s)
  ELSE DrainLoop([s EXCEPT !.isProcessingQueue = TRUE])

\* (mutant) a failed task goes to the tail
RequeueAtTail(q, task) == Append(q, task)

\* where a failed task is put back
Requeue(q, task) == <<task>> \o q

\* (mutant) one retry too many
MayRetryOffByOne(s, retries) == retries <= maxRetries /\ ~ClientClosed(s)

\* the retry test of the catch block
MayRetry(s, retries) == retries < maxRetries /\ ~ClientClosed(s)

\* The catch block of the loop for the task in hand, failed with an error of
\* the given kind.
DrainCatch(s, kind) ==
  LET task == [s.drain.task EXCEPT !.retries = @ + 1]
      s1   == HandleFTPError(s, kind)
  IN IF MayRetry(s1, task.retries)
     THEN [s1 EXCEPT !.uploadQueue = Requeue(@, task),
                     !.drain = [pc |-> "retryDelay", task |-> NoTask, cl |-> 0]]
     ELSE LET s2 == [s1 EXCEPT !.failLog[task.id] = Append(@, task.retries),
                               !.drain = IdleDrain]
          IN IF ClientClosed(s2) THEN DrainExit(s2) ELSE DrainLoop(s2)

\* after the retry delay: the test that ends the catch block, then the loop
DrainAfterDelay(s) ==
  IF ClientClosed(s) THEN DrainExit(s) ELSE DrainLoop(s)

\* after ensureRemoteDirectory() returned: the connection test before upload
DrainAfterEnsureDir(s) ==
  IF ~IsConnected(s) THEN DrainCatch(s, "fatal")
  ELSE [s EXCEPT !.drain.pc = "upload", !.drain.cl = s.client]

\* after uploadFrom() succeeded
DrainAfterUpload(s) ==
  DrainLoop([s EXCEPT !.done = @ \cup {s.drain.task.id}, !.drain = IdleDrain])


\* ------------------------------------------------- delete, sync, download
RemoveAt(q, i) == SubSeq(q, 1, i - 1) \o SubSeq(q, i + 1, Len(q))

AddDel(s, rec) ==
  IF Len(s.dels) >= MaxDel THEN [s EXCEPT !.overflow = TRUE]
  ELSE [s EXCEPT !.dels = Append(@, rec)]

AddSync(s, rec) ==
  IF Len(s.syncs) >= MaxSync THEN [s EXCEPT !.overflow = TRUE]
  ELSE [s EXCEPT !.syncs = Append(@, rec)]

\* deleteFile/deleteDirectory after checkConnection() returned true
DeleteBody(s, kind) ==
  IF s.config = 0 \/ s.client = 0
  THEN [s EXCEPT !.returned = [error |-> "none", value |-> "false"]]
  ELSE AddDel(s, [kind |-> kind, cl |-> s.client])

\* syncServerToLocal after checkConnection() returned true, up to the await
\* of the first listing; a lost connection throws and the finally block runs
SyncBody(s) ==
  IF s.config = 0 THEN s
  ELSE IF ~IsConnected(s)
       THEN [s EXCEPT !.isSyncingOrDownloading = FALSE, !.reported = "error"]
  ELSE AddSync([s EXCEPT !.isSyncingOrDownloading = TRUE],
               [pc |-> "list", cl |-> s.client, left |-> MaxSyncOps,
                lost |-> FALSE])

\* downloadRemotePath after checkConnection() returned true
DownloadBody(s) ==
  IF s.config = 0 THEN s
  ELSE IF s.client = 0 THEN [s EXCEPT !.isSyncingOrDownloading = FALSE]
  ELSE AddSync([s EXCEPT !.isSyncingOrDownloading = TRUE],
               [pc |-> "dlDir", cl |-> s.client, left |-> 0, lost |-> FALSE])

\* (mutant) the call returns and leaves the flag set
SyncEndKeepsFlag(s, i) == [s EXCEPT !.syncs = RemoveAt(@, i)]

\* the finally block of syncServerToLocal/downloadRemotePath
SyncEnd(s, i) ==
  [s EXCEPT !.syncs = RemoveAt(@, i), !.isSyncingOrDownloading = FALSE]

\* syncServerToLocal returns: showSyncSuccess or showSyncError, then the
\* finally block
SyncReturn(s, i, report) == [SyncEnd(s, i) EXCEPT !.reported = report]

\* The caller awaiting checkConnection() goes on with its result.
Resume(s, cont, ok) ==
  IF cont = "none" THEN s
  ELSE IF ~ok
       THEN IF cont \in {"delFile", "delDir"}
            THEN [s EXCEPT !.returned = [error |-> "none", value |-> "false"]]
            ELSE s
  ELSE IF cont = "sync" THEN SyncBody(s)
  ELSE IF cont = "download" THEN DownloadBody(s)
  ELSE DeleteBody(s, cont)

\* await this.checkConnection(...) and what follows in the caller cont
CheckConnection(s, cont) ==
  IF IsConnected(s) THEN Resume(s, cont, TRUE)
  ELSE LET s1 == [s EXCEPT !.connected = FALSE]
           r  == ConnectResult(s1)
       IN IF r = "pending" THEN ConnectBegin(s1, cont)
          ELSE Resume(s1, cont, r = "true")

\* the rest of connect() after the test listing succeeded
ConnectSuccess(s, cont) ==
  Resume(ProcessUploadQueue(ConnectedStatus(s)), cont, TRUE)

\* connect() failed: catch block, then the awaiting caller
ConnectFailure(s, cont) == Resume(ConnectCatch(s), cont, FALSE)

\* connect() after client.access() resolved: the closed test, then the
\* test listing on this.client
ConnectAfterAccess(s, cont) ==
  IF s.client = 0 \/ Closed(s, s.client) THEN ConnectFailure(s, cont)
  ELSE [s EXCEPT !.conns = @ \cup
          {[pc |-> "list", cl |-> s.client, cont |-> cont]}]

\* ------------------------------------------------------------- transport
\* A transport operation awaits on the client it was called on.  When that
\* client is closed the operation is rejected before any other handler runs.
Doomed(s, c) == s.cstate[c] = "closed"

Urgent(s) ==
  \/ \E k \in s.conns : Doomed(s, k.cl)
  \/ s.drain.pc \in {"ensureDir", "upload"} /\ Doomed(s, s.drain.cl)
  \/ \E i \in 1..Len(s.dels) : Doomed(s, s.dels[i].cl)
  \/ \E i \in 1..Len(s.syncs) :
        s.syncs[i].pc # "local" /\ Doomed(s, s.syncs[i].cl)

Outcomes == {"ok", "notfound", "transient", "fatal",
             "transientClosed", "fatalClosed"}
Kind(out) == IF out \in {"transient", "transientClosed"} THEN "transient"
             ELSE IF out = "notfound" THEN "notfound" ELSE "fatal"
Closes(out) == out \in {"transientClosed", "fatalClosed"}

\* did the operation's failure tell of a lost connection?
Lost(out) == out # "ok" /\ (Kind(out) = "transient" \/ Closes(out))

\* the outcomes an operation pending on client c can have
Possible(s, c, out) ==
  /\ Doomed(s, c) => Closes(out)
  /\ out = "ok" => s.cstate[c] = "open"
  /\ ~Doomed(s, c) => ~Urgent(s)

\* the transport's side of an outcome: the client may have been closed
Settle(s, c, out) ==
  IF Closes(out) THEN [s EXCEPT !.cstate[c] = "closed"] ELSE s

OpsOn(s, c) ==
  Cardinality({k \in s.conns : k.cl = c})
  + (IF s.drain.pc \in {"ensureDir", "upload"} /\ s.drain.cl = c THEN 1 ELSE 0)
  + Cardinality({i \in 1..Len(s.dels) : s.dels[i].cl = c})
  + Cardinality({i \in 1..Len(s.syncs) :
                   s.syncs[i].pc # "local" /\ s.syncs[i].cl = c})


\* ----------------------------------------------------------- path policy
DefaultIgnores == {".git", ".vscode", "node_modules", ".DS_Store",
                   "Thumbs.db", ".env", "smartftp.json"}
\* the segments of the model that the glob *.log matches
LogNames == {"app.log"}
BaseName(path) == path[Len(path)]

\* (mutant) the names are compared and the glob is not
ShouldIgnoreFileNamesOnly(path) ==
  \/ BaseName(path) \in DefaultIgnores
  \/ Len(path) = 1 /\ path[1] \in DefaultIgnores

\* PathUtils.shouldIgnoreFile with the default patterns: a pattern matches
\* the base name or the whole relative path; *.log does not cross a slash.
ShouldIgnoreFile(path) ==
  \/ BaseName(path) \in DefaultIgnores
  \/ Len(path) = 1 /\ path[1] \in DefaultIgnores
  \/ BaseName(path) \in LogNames

\* fs.existsSync(localPath)
ExistsSync(path) == path # GoneFile /\ path \notin gone

\* the paths chokidar reports: its ignored list has **/*.log and the
\* default directories
Reported(path) ==
  /\ BaseName(path) \notin LogNames
  /\ \A i \in 1..Len(path) : path[i] \notin {"node_modules", ".git", ".vscode"}
  /\ BaseName(path) \notin {"smartftp.json", ".DS_Store", "Thumbs.db"}

\* ------------------------------------------------------------ uploadFile
\* May uploadFile go past its first test?
UploadGuard(s) == ~s.isSyncingOrDownloading

NewTask(s, path) == [id |-> s.nextTask, path |-> path, retries |-> 0]

Enqueue(q, task) == Append(q, task)

UploadFileBody(s, path) ==
  IF ~UploadGuard(s) THEN s
  ELSE IF s.config = 0 THEN s
  ELSE IF ~ExistsSync(path) THEN s
  ELSE IF ShouldIgnoreFile(path) THEN s
  ELSE IF s.nextTask > MaxTasks THEN [s EXCEPT !.overflow = TRUE]
  ELSE LET s1 == [s EXCEPT !.uploadQueue = Enqueue(@, NewTask(s, path)),
                           !.nextTask = @ + 1]
       IN IF ~IsConnected(s1) THEN Connect(s1) ELSE ProcessUploadQueue(s1)

\* uploadFile(path) returns true for a file that exists and is not ignored
Accepts(s, path) == s.config # 0 /\ ExistsSync(path) /\ ~ShouldIgnoreFile(path)

\* ------------------------------------------------------------ the actions
\* a caller other than uploadFile invokes the manager
Caller(name) == intentional' = (name = "disconnect") /\ UNCHANGED accepted

\* connect() called by the connect command or by activation
CmdConnect ==
  /\ ~Urgent(S)
  /\ Commit([Connect(S) EXCEPT
              !.called = [op |-> "connect", value |-> ConnectResult(S)]])
  /\ Caller("connect")
  /\ UNCHANGED watchVars

\* disconnect() called by the disconnect command
CmdDisconnect ==
  /\ ~Urgent(S)
  /\ Commit(Disconnect(S))
  /\ Caller("disconnect")
  /\ UNCHANGED watchVars

\* a call of ftpManager.uploadFile(path)
UploadCall(path) ==
  /\ Commit(UploadFileBody(S, path))
  /\ intentional' = FALSE
  /\ accepted' = IF Accepts(S, path) THEN accepted + 1 ELSE accepted
  /\ accepted' <= MaxTasks

\* uploadFile(path) called by the upload command
UploadFile(path) ==
  /\ ~Urgent(S)
  /\ UploadCall(path)
  /\ UNCHANGED watchVars

\* startFileSystemWatcher creates the chokidar watcher
HasFsWatcher(c) == AutoUpload(c) \/ UploadOnSave(c)

\* the unlink / unlinkDir handlers exist and pass their autoDelete test
WatchesDeletes ==
  /\ isWatching /\ config \in Configs
  /\ HasFsWatcher(config)
  /\ ~IgnoreDelete(config) /\ AutoDelete(config)

\* handleFileDelete / handleDirectoryDelete: deleteFile / deleteDirectory
DeleteRemote(kind) ==
  /\ ~Urgent(S)
  /\ WatchesDeletes
  /\ Commit(CheckConnection(S, kind))
  /\ Caller(kind)
  /\ UNCHANGED watchVars

\* A file of the workspace is deleted while no transfer reads it; chokidar
\* reports the unlink to the handler, if there is one: handleFileDelete.
LocalDelete(path) ==
  /\ ~Urgent(S)
  /\ ExistsSync(path)
  /\ ~(drain.pc = "upload" /\ drain.task.path = path)
  /\ LET s1 == [S EXCEPT !.gone = @ \cup {path}]
     IN Commit(IF WatchesDeletes /\ Reported(path)
               THEN CheckConnection(s1, "delFile") ELSE s1)
  /\ UNCHANGED <<accepted, intentional, watchVars>>

\* May a sync or download go past its first test?
SyncGuard(s) == ~s.isSyncingOrDownloading

SyncServerToLocal ==
  /\ ~Urgent(S)
  /\ Commit(IF SyncGuard(S) THEN CheckConnection(S, "sync") ELSE S)
  /\ Caller("sync")
  /\ UNCHANGED watchVars

DownloadRemotePath ==
  /\ ~Urgent(S)
  /\ Commit(IF SyncGuard(S) THEN CheckConnection(S, "download") ELSE S)
  /\ Caller("download")
  /\ UNCHANGED watchVars

\* (mutant) the callback leaves the timer slot as it is
ReconnectTimerBodyKeepsSlot(s) ==
  IF ~IsConnected(s) /\ ~s.connecting
  THEN [Connect(s) EXCEPT
          !.called = [op |-> "timer", value |-> ConnectResult(s)]]
  ELSE [s EXCEPT !.called = [op |-> "timer", value |-> "skipped"]]

\* the reconnect timer's callback
ReconnectTimerBody(s) ==
  LET s1 == [s EXCEPT !.reconnectTimer = FALSE, !.pending = @ - 1]
  IN IF ~IsConnected(s1) /\ ~s1.connecting
     THEN [Connect(s1) EXCEPT
             !.called = [op |-> "timer", value |-> ConnectResult(s1)]]
     ELSE [s1 EXCEPT !.called = [op |-> "timer", value |-> "skipped"]]

ReconnectTimerFires ==
  /\ ~Urgent(S)
  /\ pendingReconnects > 0
  /\ Commit(ReconnectTimerBody(S))
  /\ UNCHANGED <<accepted, intentional, watchVars>>

\* the socket of a client in client.access() gets connected
SocketUp(c) ==
  /\ ~Urgent(S)
  /\ cstate[c] = "fresh"
  /\ Commit([S EXCEPT !.cstate[c] = "open"])
  /\ UNCHANGED <<accepted, intentional, watchVars>>

\* the server or the network closes a client no operation is pending on
Drop(c) ==
  /\ ~Urgent(S)
  /\ cstate[c] = "open"
  /\ OpsOn(S, c) = 0
  /\ Commit([S EXCEPT !.cstate[c] = "closed"])
  /\ UNCHANGED <<accepted, intentional, watchVars>>

\* client.access() of a connect() settles
AccessDone(k, out) ==
  /\ k \in conns /\ k.pc = "access"
  /\ out \in {"ok", "fatal", "fatalClosed"}
  /\ Possible(S, k.cl, out)
  /\ LET s0 == [S EXCEPT !.conns = @ \ {k}]
         s1 == IF out = "ok" THEN s0
               ELSE IF s0.cstate[k.cl] = "fresh"
                    THEN [s0 EXCEPT !.cstate[k.cl] = "closed"]
                    ELSE Settle(s0, k.cl, out)
     IN Commit(IF out = "ok" THEN ConnectAfterAccess(s1, k.cont)
               ELSE ConnectFailure(s1, k.cont))
  /\ UNCHANGED <<accepted, intentional, watchVars>>

\* the test listing of a connect() settles
ConnectListDone(k, out) ==
  /\ k \in conns /\ k.pc = "list"
  /\ out \in {"ok", "fatal", "fatalClosed"}
  /\ Possible(S, k.cl, out)
  /\ LET s1 == Settle([S EXCEPT !.conns = @ \ {k}], k.cl, out)
     IN Commit(IF out = "ok" THEN ConnectSuccess(s1, k.cont)
               ELSE ConnectFailure(s1, k.cont))
  /\ UNCHANGED <<accepted, intentional, watchVars>>

DrainOutcomes == Outcomes \ {"notfound"}

\* client.ensureDir() of the drain loop settles
EnsureDirDone(out) ==
  /\ drain.pc = "ensureDir"
  /\ out \in DrainOutcomes
  /\ Possible(S, drain.cl, out)
  /\ LET s1 == Settle(S, drain.cl, out)
     IN Commit(IF out = "ok" THEN DrainAfterEnsureDir(s1)
               ELSE DrainCatch(HandleFTPError(s1, Kind(out)), Kind(out)))
  /\ UNCHANGED <<accepted, intentional, watchVars>>

\* uploadFrom(localPath, ...) opens the local file first: for a file that is
\* gone the open fails (ENOENT) and the transport is not used
Opens(path, out) ==
  path \in gone => out = (IF Doomed(S, drain.cl) THEN "fatalClosed" ELSE "fatal")

\* client.uploadFrom() of the drain loop settles
UploadDone(out) ==
  /\ drain.pc = "upload"
  /\ out \in DrainOutcomes
  /\ Possible(S, drain.cl, out)
  /\ Opens(drain.task.path, out)
  /\ LET s1 == Settle(S, drain.cl, out)
     IN Commit(IF out = "ok" THEN DrainAfterUpload(s1)
               ELSE DrainCatch(s1, Kind(out)))
  /\ UNCHANGED <<accepted, intentional, watchVars>>

\* the retry delay of the drain loop elapses
RetryDelayDone ==
  /\ ~Urgent(S)
  /\ drain.pc = "retryDelay"
  /\ Commit(DrainAfterDelay(S))
  /\ UNCHANGED <<accepted, intentional, watchVars>>

\* (mutant) only a removal that succeeded counts
BenignOnlyOk(out) == out = "ok"

\* the removal succeeded, or failed with 550 (the file is gone)
Benign(out) == out \in {"ok", "notfound"}

\* deleteFile/deleteDirectory after the await of remove/removeDir
DeleteCatch(s, out) ==
  IF Benign(out)
  THEN [s EXCEPT !.returned =
          [error |-> IF out = "ok" THEN "none" ELSE "notfound", value |-> "true"]]
  ELSE [HandleFTPError(s, Kind(out)) EXCEPT !.returned =
          [error |-> Kind(out), value |-> "false"]]

\* client.remove()/removeDir() of a delete request settles
RemoveDone(i, out) ==
  /\ i \in 1..Len(dels)
  /\ out \in Outcomes
  /\ Possible(S, dels[i].cl, out)
  /\ LET s1 == Settle([S EXCEPT !.dels = RemoveAt(@, i)], dels[i].cl, out)
     IN Commit(DeleteCatch(s1, out))
  /\ UNCHANGED <<accepted, intentional, watchVars>>

\* client.list() of _recursiveSync settles
SyncListDone(i, out) ==
  /\ i \in 1..Len(syncs) /\ syncs[i].pc = "list"
  /\ out \in Outcomes
  /\ Possible(S, syncs[i].cl, out)
  /\ LET s1 == Settle(S, syncs[i].cl, out)
     IN Commit(IF out \in {"ok", "notfound"}
               THEN [s1 EXCEPT !.syncs[i].pc = "local", !.syncs[i].cl = 0]
               ELSE SyncReturn(HandleFTPError(s1, Kind(out)), i, "error"))
  /\ UNCHANGED <<accepted, intentional, watchVars>>

\* client.downloadTo() of _recursiveSync settles; a failure skips the file
SyncDownloadDone(i, out) ==
  /\ i \in 1..Len(syncs) /\ syncs[i].pc = "download"
  /\ out \in Outcomes \ {"notfound"}
  /\ Possible(S, syncs[i].cl, out)
  /\ LET s1 == Settle(S, syncs[i].cl, out)
         s2 == IF out = "ok" THEN s1 ELSE HandleFTPError(s1, Kind(out))
     IN Commit([s2 EXCEPT !.syncs[i].pc = "local", !.syncs[i].cl = 0,
                          !.syncs[i].lost = @ \/ Lost(out)])
  /\ UNCHANGED <<accepted, intentional, watchVars>>

\* _recursiveSync after its local file system calls: the next remote entry
\* is a directory (listed), a file to download, or there is none left
SyncLocalDone(i, next) ==
  /\ ~Urgent(S)
  /\ i \in 1..Len(syncs) /\ syncs[i].pc = "local"
  /\ next \in {"end", "dir", "file"}
  /\ next # "end" => syncs[i].left > 0
  /\ Commit(IF next = "end" THEN SyncReturn(S, i, "success")
            ELSE IF ~IsConnected(S) THEN SyncReturn(S, i, "error")
            ELSE [S EXCEPT !.syncs[i] =
                    [pc |-> IF next = "dir" THEN "list" ELSE "download",
                     cl |-> S.client, left |-> syncs[i].left - 1,
                     lost |-> syncs[i].lost]])
  /\ UNCHANGED <<accepted, intentional, watchVars>>

\* client.downloadToDir() of downloadRemotePath settles
DownloadDirDone(i, out) ==
  /\ i \in 1..Len(syncs) /\ syncs[i].pc = "dlDir"
  /\ out \in Outcomes \ {"notfound"}
  /\ Possible(S, syncs[i].cl, out)
  /\ LET s1 == Settle(S, syncs[i].cl, out)
         s2 == IF out = "ok" THEN s1 ELSE HandleFTPError(s1, Kind(out))
     IN Commit(SyncEnd(s2, i))
  /\ UNCHANGED <<accepted, intentional, watchVars>>

\* FTPManager.setConfig(c) followed by the config-changed listener
\* (mutant) a removed configuration leaves the session as it is
ConfigChangedBodyKeepsSession(s, c) ==
  LET s1 == [s EXCEPT !.config = c]
  IN IF c = 0 THEN s1
     ELSE IF ~IsConnected(s1) THEN Connect(s1) ELSE s1

ConfigChangedBody(s, c) ==
  LET s1 == [s EXCEPT !.config = c]
  IN IF c = 0 THEN Disconnect(Disconnect(s1))
     ELSE IF ~IsConnected(s1) THEN Connect(s1) ELSE s1

\* the handles the map holds
Mapped == {uploadDebounce[p] : p \in Paths} \ {0}

\* (mutant) stop() empties the map and leaves its timers armed
ClearAllKeepsTimers(tm) == tm

\* uploadDebounce.forEach(timeout => clearTimeout(timeout))
ClearAll(tm) == [h \in Handles |-> IF h \in Mapped THEN NoPath ELSE tm[h]]

\* FileWatcher.stop(): the timers of the map are cleared, the map is emptied
WatcherStop ==
  /\ timers' = ClearAll(timers)
  /\ uploadDebounce' = [p \in Paths |-> 0]
  /\ last' = [op |-> "stop", path |-> NoPath, cleared |-> Cardinality(Mapped)]
  /\ events' = [p \in Paths |-> 0]
  /\ fired' = [p \in Paths |-> 0]

\* the config-changed listener: both managers get the configuration, the
\* watcher restarts
OnConfigChanged(c) ==
  /\ ~Urgent(S)
  /\ Commit(ConfigChangedBody(S, c))
  /\ Caller(IF c = 0 THEN "disconnect" ELSE "config")
  /\ WatcherStop
  /\ isWatching' = (c # 0)

\* -------------------------------------------------------------- watcher
\* the add / change handlers exist (watcher.autoUpload, no ignore flag)
WatchesUploads ==
  /\ isWatching /\ config \in Configs
  /\ HasFsWatcher(config) /\ AutoUpload(config)

\* the save handler exists (uploadOnSave)
WatchesSaves == isWatching /\ config \in Configs /\ UploadOnSave(config)

\* path.resolve(workspaceRoot, path): the segments of the absolute path
RECURSIVE Resolve(_, _)
Resolve(base, path) ==
  IF path = <<>> THEN base
  ELSE IF Head(path) = ".." THEN Resolve(SubSeq(base, 1, Len(base) - 1), Tail(path))
  ELSE Resolve(Append(base, Head(path)), Tail(path))

Absolute(path) == Resolve(WorkspaceRoot, path)

\* a.startsWith(b) for two segment names of the model
NameStartsWith(a, b) == a = b \/ (b = "proj" /\ a = "proj-old")

\* filePath.startsWith(workspaceRoot) on the strings: the root's segments
\* but the last are the path's, and the root's last segment is a prefix of
\* the path's segment at that place
StartsWithRoot(abs) ==
  LET n == Len(WorkspaceRoot)
  IN /\ Len(abs) >= n
     /\ SubSeq(abs, 1, n - 1) = SubSeq(WorkspaceRoot, 1, n - 1)
     /\ NameStartsWith(abs[n], WorkspaceRoot[n])

\* PathUtils.isInWorkspace
IsInWorkspace(path) == StartsWithRoot(Absolute(path))

\* (mutant) the save handler leaves the pending timer armed
ClearPendingKeepsTimer(tm, path) == tm

\* clearTimeout(timeout) of the save handler; a path chokidar never reported
\* has no entry
ClearPending(tm, path) ==
  [h \in Handles |->
     IF path \in Paths /\ h = uploadDebounce[path] THEN NoPath ELSE tm[h]]

\* (mutant) the existing timer is not cleared
ClearNothing(tm, path) == tm

\* clearTimeout(existingTimeout) of debounceUpload
ClearExisting(tm, path) ==
  [h \in Handles |-> IF h = uploadDebounce[path] THEN NoPath ELSE tm[h]]

Pending(path) == \E h \in Handles : timers[h] = path

\* an add or change event: debounceUpload(path)
WatchEvent(path) ==
  /\ WatchesUploads
  /\ Reported(path)
  /\ IsInWorkspace(path)
  /\ ~ShouldIgnoreFile(path)
  /\ LET cleared == ClearExisting(timers, path)
         free    == {h \in Handles : cleared[h] = NoPath}
         h       == CHOOSE x \in free : \A y \in free : x <= y
     IN /\ free # {}
        /\ timers' = [cleared EXCEPT ![h] = path]
        /\ uploadDebounce' = [uploadDebounce EXCEPT ![path] = h]
  /\ events' = [events EXCEPT ![path] = IF Pending(path) THEN @ + 1 ELSE 1]
  /\ events'[path] <= MaxEvents
  /\ fired' = [fired EXCEPT ![path] = IF Pending(path) THEN @ ELSE 0]
  /\ last' = [op |-> "event", path |-> path, cleared |-> 0]
  /\ UNCHANGED <<ftpVars, treeVars, isWatching>>

\* a debounce timer fires: the entry is deleted, uploadFile is called
DebounceFires(h) ==
  /\ ~Urgent(S)
  /\ timers[h] # NoPath
  /\ timers' = [timers EXCEPT ![h] = NoPath]
  /\ uploadDebounce' = [uploadDebounce EXCEPT ![timers[h]] = 0]
  /\ fired' = [fired EXCEPT ![timers[h]] = @ + 1]
  /\ UploadCall(timers[h])
  /\ last' = [op |-> "timer", path |-> timers[h], cleared |-> 0]
  /\ UNCHANGED <<isWatching, events>>

\* a document was saved: a pending debounce timer is cleared, uploadFile is
\* called
SaveEvent(path) ==
  /\ ~Urgent(S)
  /\ WatchesSaves
  /\ IsInWorkspace(path)
  /\ ~ShouldIgnoreFile(path)
  /\ timers' = ClearPending(timers, path)
  /\ IF path \in Paths /\ uploadDebounce[path] # 0
     THEN /\ uploadDebounce' = [uploadDebounce EXCEPT ![path] = 0]
          /\ events' = [events EXCEPT ![path] = 0]
          /\ fired' = [fired EXCEPT ![path] = 0]
          /\ last' = [op |-> "save", path |-> path, cleared |-> 1]
     ELSE /\ UNCHANGED <<uploadDebounce, events, fired>>
          /\ last' = [op |-> "save", path |-> path, cleared |-> 0]
  /\ UploadCall(path)
  /\ UNCHANGED isWatching

\* the toggle command: stop() when watching, start() otherwise
ToggleWatcher ==
  /\ IF isWatching
     THEN WatcherStop /\ isWatching' = FALSE
     ELSE /\ isWatching' = (config # 0)
          /\ UNCHANGED <<uploadDebounce, timers, events, fired, last>>
  /\ UNCHANGED <<ftpVars, treeVars>>

\* ------------------------------------------- the comparison of a sync
\* One folder of the workspace, /ws/proj/pub, is synced from the server over
\* a connection that stays up; the only transport failure is a failed
\* download.  An entry is [type, mtime, size]; NoTime is a modification time
\* the server did not report (modifiedAt undefined).
SyncedFile == <<"pub", "index.html">>
SyncedLog  == <<"pub", "app.log">>
SyncedPage == <<"pub", "page.html">>
TreeNames  == {SyncedFile, SyncedLog, SyncedPage}
TreeOrder  == <<SyncedFile, SyncedLog, SyncedPage>>
NoTime     == 0 - 1
NoEntry    == [type |-> "none", mtime |-> NoTime, size |-> 0]
DirEntry   == [type |-> "dir", mtime |-> NoTime, size |-> 0]
RemoteTimes == {NoTime, 0, 2000, 2001, 6000}
Sizes       == {100, 101}
RemoteEntries ==
  {NoEntry, DirEntry} \cup [type : {"file"}, mtime : RemoteTimes, size : Sizes]
LocalEntries ==
  {NoEntry, DirEntry, [type |-> "file", mtime |-> 0, size |-> 100]}
\* the time at which the sync runs: the mtime a downloaded file gets
Now == 3000
Runs == 1..2
timeTolerance == 2000

IdleWalk == [pc |-> "idle", run |-> 0, todo |-> <<>>,
             stats |-> [n \in TreeNames |-> NoEntry]]

\* localItemStats: the local entries that are not ignored
LocalItemStats ==
  [n \in TreeNames |-> IF ShouldIgnoreFile(n) THEN NoEntry ELSE localItems[n]]

\* the remote items of the listing, in its order
RECURSIVE Listed(_)
Listed(names) ==
  IF names = <<>> THEN <<>>
  ELSE IF remoteItems[Head(names)].type = "none" THEN Listed(Tail(names))
  ELSE <<Head(names)>> \o Listed(Tail(names))

\* (mutant) the tolerance is met at equality
NewerOrEqual(remoteMtimeMs, localMtimeMs) ==
  remoteMtimeMs >= localMtimeMs + timeTolerance

\* remote is significantly newer
Newer(remoteMtimeMs, localMtimeMs) ==
  remoteMtimeMs > localMtimeMs + timeTolerance

\* (mutant) a missing remote modification time is compared like any other
ShouldDownloadComparesOnly(remote, localStats) ==
  IF Newer(remote.mtime, localStats.mtime) THEN TRUE
  ELSE remote.size # localStats.size

\* shouldDownload for a remote file whose local counterpart is a file
ShouldDownload(remote, localStats) ==
  IF remote.mtime = NoTime THEN TRUE
  ELSE IF Newer(remote.mtime, localStats.mtime) THEN TRUE
  ELSE remote.size # localStats.size

\* what the loop body does with a remote item
SyncDecision(name, remote, localStats) ==
  IF ShouldIgnoreFile(name) THEN "ignored"
  ELSE IF remote.type = "dir"
       THEN IF localStats.type = "none" THEN "mkdir"
            ELSE IF localStats.type = "file" THEN "mkdirFailed"
            ELSE "recurse"
  ELSE IF localStats.type = "none" THEN "download"
  ELSE IF localStats.type = "dir" THEN "conflict"
  ELSE IF ShouldDownload(remote, localStats) THEN "download"
  ELSE "skip"

\* syncServerToLocal on the folder: the listing and the local directory are
\* read
TreeSyncStart ==
  /\ walk.pc = "idle"
  /\ walk.run < 2
  /\ walk' = [pc |-> "items", run |-> walk.run + 1,
              todo |-> Listed(TreeOrder), stats |-> LocalItemStats]
  /\ UNCHANGED <<ftpVars, watchVars, remoteItems, localItems, decided>>

\* one pass of the loop over the remote items, up to the await of downloadTo
TreeSyncItem ==
  /\ walk.pc = "items"
  /\ walk.todo # <<>>
  /\ LET name == Head(walk.todo)
         d    == SyncDecision(name, remoteItems[name], walk.stats[name])
     IN /\ decided' = [decided EXCEPT ![walk.run][name] = d]
        /\ localItems' = IF d = "mkdir"
                         THEN [localItems EXCEPT ![name] = DirEntry]
                         ELSE localItems
        /\ walk' = [walk EXCEPT !.pc = IF d = "download" THEN "download" ELSE "items",
                                !.todo = IF d = "download" THEN @ ELSE Tail(@)]
  /\ UNCHANGED <<ftpVars, watchVars, remoteItems>>

\* (mutant) a failed download ends the loop
AfterDownloadAborts(todo, ok) == IF ok THEN Tail(todo) ELSE <<>>

\* the entries left after downloadTo settled: its catch block does not
\* rethrow, the loop goes on with the next entry
AfterDownload(todo, ok) == Tail(todo)

\* downloadTo settles: the local file is written now, or the file is skipped
TreeDownloadDone(ok) ==
  /\ walk.pc = "download"
  /\ LET name == Head(walk.todo)
     IN /\ decided' = [decided EXCEPT ![walk.run][name] =
                         IF ok THEN "downloaded" ELSE "failed"]
        /\ localItems' = IF ok
                         THEN [localItems EXCEPT ![name] =
                                 [type |-> "file", mtime |-> Now,
                                  size |-> remoteItems[name].size]]
                         ELSE localItems
        /\ walk' = [walk EXCEPT !.pc = "items", !.todo = AfterDownload(@, ok)]
  /\ UNCHANGED <<ftpVars, watchVars, remoteItems>>

\* the loop ends, syncServerToLocal returns
TreeSyncEnd ==
  /\ walk.pc = "items"
  /\ walk.todo = <<>>
  /\ walk' = [walk EXCEPT !.pc = "idle"]
  /\ UNCHANGED <<ftpVars, watchVars, remoteItems, localItems, decided>>

InitTree ==
  /\ walk = IdleWalk
  /\ decided = [r \in Runs |-> [n \in TreeNames |-> "none"]]

InitWith(cfg) ==
  /\ config = cfg
  /\ client = 0
  /\ cstate = [c \in Clients |-> "unused"]
  /\ connected = FALSE
  /\ connecting = FALSE
  /\ statusError = FALSE
  /\ uploadQueue = <<>>
  /\ isProcessingQueue = FALSE
  /\ reconnectTimer = FALSE
  /\ isSyncingOrDownloading = FALSE
  /\ conns = {}
  /\ drain = IdleDrain
  /\ dels = <<>>
  /\ syncs = <<>>
  /\ nextTask = 1
  /\ failLog = [i \in TaskIds |-> <<>>]
  /\ done = {}
  /\ accepted = 0
  /\ intentional = FALSE
  /\ delResult = NoReturn
  /\ sessionCall = NoCall
  /\ gone = {}
  /\ syncReport = "none"
  /\ target = [c \in Clients |-> 0]
  /\ pendingReconnects = 0
  /\ isWatching = (cfg # 0)
  /\ uploadDebounce = [p \in Paths |-> 0]
  /\ timers = [h \in Handles |-> NoPath]
  /\ events = [p \in Paths |-> 0]
  /\ fired = [p \in Paths |-> 0]
  /\ last = [op |-> "none", path |-> NoPath, cleared |-> 0]
  /\ InitTree

\* no folder is synced
NoFolder ==
  /\ remoteItems = [n \in TreeNames |-> NoEntry]
  /\ localItems = [n \in TreeNames |-> NoEntry]

\* the state after construction
Init == InitWith(0) /\ NoFolder

\* the state after activation found a configuration (setConfig, no connect yet)
InitConfigured == InitWith(1) /\ NoFolder

\* a configured extension and any remote and local folder
InitFolders ==
  /\ InitWith(1)
  /\ \E r \in [{SyncedFile, SyncedLog} -> RemoteEntries] :
       remoteItems = [n \in TreeNames |-> IF n = SyncedPage THEN NoEntry ELSE r[n]]
  /\ \E l \in [{SyncedFile, SyncedLog} -> LocalEntries] :
       localItems = [n \in TreeNames |-> IF n = SyncedPage THEN NoEntry ELSE l[n]]

\* a configured extension and a remote folder of three entries: absent,
\* directories, files newer than any local file or without modification time
WideRemote ==
  {NoEntry, DirEntry, [type |-> "file", mtime |-> 6000, size |-> 100],
   [type |-> "file", mtime |-> NoTime, size |-> 100]}

InitWide ==
  /\ InitWith(1)
  /\ remoteItems \in [TreeNames -> WideRemote]
  /\ localItems \in [TreeNames -> LocalEntries]

ConnRecs == [pc : {"access", "list"}, cl : Clients,
             cont : {"none", "sync", "download", "delFile", "delDir"}]

\* the session: handshakes, the reconnect timer and the network
Session ==
  \/ ReconnectTimerFires
  \/ \E c \in Clients : SocketUp(c)
  \/ \E c \in Clients : Drop(c)
  \/ \E k \in ConnRecs, out \in Outcomes : AccessDone(k, out)
  \/ \E k \in ConnRecs, out \in Outcomes : ConnectListDone(k, out)

\* the drain loop's awaits
Drain ==
  \/ \E out \in Outcomes : EnsureDirDone(out)
  \/ \E out \in Outcomes : UploadDone(out)
  \/ RetryDelayDone

\* the awaits of delete, sync and download
Remote ==
  \/ \E i \in 1..MaxDel, out \in Outcomes : RemoveDone(i, out)
  \/ \E i \in 1..MaxSync, out \in Outcomes : SyncListDone(i, out)
  \/ \E i \in 1..MaxSync, out \in Outcomes : SyncDownloadDone(i, out)
  \/ \E i \in 1..MaxSync, next \in {"end", "dir", "file"} : SyncLocalDone(i, next)
  \/ \E i \in 1..MaxSync, out \in Outcomes : DownloadDirDone(i, out)

\* Uploads over a session the user connects and disconnects.
NextQueue ==
  \/ CmdConnect
  \/ CmdDisconnect
  \/ \E p \in Paths : UploadFile(p)
  \/ Session
  \/ Drain

SpecQueue == InitConfigured /\ [][NextQueue]_vars

\* The session alone: connect, disconnect, configuration changes.
NextSession ==
  \/ CmdConnect
  \/ CmdDisconnect
  \/ \E c \in {0} \cup Configs : OnConfigChanged(c)
  \/ Session

SpecSession == Init /\ [][NextSession]_vars

\* Uploads, deletes, sync and download over a session nobody disconnects.
NextShared ==
  \/ CmdConnect
  \/ \E p \in Paths : UploadFile(p)
  \/ \E kind \in {"delFile", "delDir"} : DeleteRemote(kind)
  \/ SyncServerToLocal
  \/ DownloadRemotePath
  \/ Session
  \/ Drain
  \/ Remote

SpecShared == InitConfigured /\ [][NextShared]_vars

\* Uploads and the watcher's deletes over a session nobody disconnects.
NextDelete ==
  \/ CmdConnect
  \/ \E p \in Paths : UploadFile(p)
  \/ \E kind \in {"delFile", "delDir"} : DeleteRemote(kind)
  \/ Session
  \/ Drain
  \/ \E i \in 1..MaxDel, out \in Outcomes : RemoveDone(i, out)

SpecDelete == InitConfigured /\ [][NextDelete]_vars

\* Sync and download over a session the user connects and disconnects.
NextSync ==
  \/ CmdDisconnect
  \/ SyncServerToLocal
  \/ DownloadRemotePath
  \/ Session
  \/ \E i \in 1..MaxSync, out \in Outcomes : SyncListDone(i, out)
  \/ \E i \in 1..MaxSync, out \in Outcomes : SyncDownloadDone(i, out)
  \/ \E i \in 1..MaxSync, next \in {"end", "dir", "file"} : SyncLocalDone(i, next)
  \/ \E i \in 1..MaxSync, out \in Outcomes : DownloadDirDone(i, out)

SpecSync == InitConfigured /\ [][NextSync]_vars

\* The watcher and the uploads it requests; the transport does not answer.
NextWatch ==
  \/ \E p \in Paths : WatchEvent(p)
  \/ \E h \in Handles : DebounceFires(h)
  \/ \E p \in AllPaths : SaveEvent(p)
  \/ ToggleWatcher

SpecWatch == InitConfigured /\ [][NextWatch]_vars

\* the sync of a folder, run twice, and uploads requested meanwhile
NextTree ==
  \/ TreeSyncStart
  \/ TreeSyncItem
  \/ \E ok \in BOOLEAN : TreeDownloadDone(ok)
  \/ TreeSyncEnd
  \/ \E p \in Paths : UploadFile(p)

SpecTree == InitFolders /\ [][NextTree]_vars

\* the sync of a folder of three entries, run twice
NextFolder ==
  \/ TreeSyncStart
  \/ TreeSyncItem
  \/ \E ok \in BOOLEAN : TreeDownloadDone(ok)
  \/ TreeSyncEnd

SpecFolder == InitWide /\ [][NextFolder]_vars

\* The triggers of an upload for files below an ignored directory and for
\* an ordinary file; the transport does not answer.
Triggered == UnderIgnoredDir \cup {RootFile}

NextIgnored ==
  \/ \E p \in Triggered : WatchEvent(p)
  \/ \E h \in Handles : DebounceFires(h)
  \/ \E p \in Triggered : SaveEvent(p)
  \/ \E p \in Triggered : UploadFile(p)

SpecIgnored == InitConfigured /\ [][NextIgnored]_vars

\* Uploads of files that may be deleted locally before their transfer.
NextVanish ==
  \/ CmdConnect
  \/ \E p \in Paths : UploadFile(p)
  \/ \E p \in Paths : LocalDelete(p)
  \/ Session
  \/ Drain
  \/ \E i \in 1..MaxDel, out \in Outcomes : RemoveDone(i, out)

SpecVanish == InitConfigured /\ [][NextVanish]_vars

\* Local deletes under the configurations that set watcher.autoDelete.
NextAutoDelete ==
  \/ CmdConnect
  \/ \E c \in Configs : OnConfigChanged(c)
  \/ \E p \in Paths : LocalDelete(p)
  \/ Session
  \/ \E i \in 1..MaxDel, out \in Outcomes : RemoveDone(i, out)

SpecAutoDelete == InitConfigured /\ [][NextAutoDelete]_vars

\* Local deletes of a file the ignore rules match and of one they do not.
Deleted == {EnvFile, RootFile}

NextIgnoredDelete ==
  \/ CmdConnect
  \/ \E p \in Deleted : LocalDelete(p)
  \/ Session
  \/ \E i \in 1..MaxDel, out \in Outcomes : RemoveDone(i, out)

SpecIgnoredDelete == InitConfigured /\ [][NextIgnoredDelete]_vars

\* One save of src/b.txt: VS Code notifies the save handler and chokidar
\* reports the change of the same write, each once and in either order,
\* within the debounce window.
SavedFile == NestedFile

SaveNotice ==
  /\ accepted = 0 /\ last.op # "save"
  /\ SaveEvent(SavedFile)

ChangeNotice ==
  /\ events[SavedFile] = 0 /\ fired[SavedFile] = 0
  /\ last.op = "none" \/ (last.op = "save" /\ last.cleared = 0)
  /\ WatchEvent(SavedFile)

NextSave ==
  \/ SaveNotice
  \/ ChangeNotice
  \/ \E h \in Handles : DebounceFires(h)
  \/ Session
  \/ Drain

SpecSave == InitConfigured /\ [][NextSave]_vars

Next ==
  \/ \E p \in Paths : WatchEvent(p)
  \/ \E h \in Handles : DebounceFires(h)
  \/ \E p \in AllPaths : SaveEvent(p)
  \/ ToggleWatcher
  \/ CmdConnect
  \/ CmdDisconnect
  \/ \E p \in Paths : UploadFile(p)
  \/ \E kind \in {"delFile", "delDir"} : DeleteRemote(kind)
  \/ \E p \in Paths : LocalDelete(p)
  \/ SyncServerToLocal
  \/ DownloadRemotePath
  \/ \E c \in {0} \cup Configs : OnConfigChanged(c)
  \/ Session
  \/ Drain
  \/ Remote
  \/ TreeSyncStart
  \/ TreeSyncItem
  \/ \E ok \in BOOLEAN : TreeDownloadDone(ok)
  \/ TreeSyncEnd

Spec == Init /\ [][Next]_vars


\* Uploads over a session nobody disconnects, with the scheduling the event
\* loop guarantees: timers fire, transport operations settle, sockets get
\* connected, and handshakes that can succeed infinitely often do succeed.
NextLive ==
  \/ \E p \in Paths : UploadFile(p)
  \/ Session
  \/ Drain

SpecLive ==
  /\ InitConfigured
  /\ [][NextLive]_vars
  /\ WF_vars(ReconnectTimerFires)
  /\ WF_vars(RetryDelayDone)
  /\ WF_vars(\E out \in Outcomes : EnsureDirDone(out))
  /\ WF_vars(\E out \in Outcomes : UploadDone(out))
  /\ SF_vars(\E c \in Clients : SocketUp(c))
  /\ SF_vars(\E k \in ConnRecs : AccessDone(k, "ok"))
  /\ SF_vars(\E k \in ConnRecs : ConnectListDone(k, "ok"))

\* ============================================================== claims
QueueIds == {uploadQueue[i].id : i \in 1..Len(uploadQueue)}
Transferring == drain.pc \in {"ensureDir", "upload"}
OpenClients == {c \in Clients : cstate[c] = "open"}

\* transport operations of the drain loop, of deletes and of sync/download
\* pending on client c
SharedOpsOn(c) ==
  (IF Transferring /\ drain.cl = c THEN 1 ELSE 0)
  + Cardinality({i \in 1..Len(dels) : dels[i].cl = c})
  + Cardinality({i \in 1..Len(syncs) : syncs[i].pc # "local" /\ syncs[i].cl = c})

\* C1 (as claimed): an uploadFile call for an existing, non-ignored file made
\* while a sync or download is in progress records a task for it in the
\* upload queue and starts no transfer.
C1_QueuedDuringSync ==
  [][(accepted' # accepted /\ isSyncingOrDownloading)
       => /\ \E i \in 1..Len(uploadQueue') : uploadQueue'[i].id = nextTask
          /\ drain' = drain]_vars

\* C2 (as claimed): while a sync or download holds the exclusivity flag, no
\* ensureDir or uploadFrom of the drain loop is in progress.
C2_NoDrainDuringSync == isSyncingOrDownloading => ~Transferring

\* C3: a task's retry counter never exceeds 3; a task whose terminal failure
\* was shown is in neither the queue nor the loop's hands nor among the
\* uploaded ones, and its failure was shown exactly once; a task still
\* waiting or in hand has retries left.
C3_BoundedRetries ==
  /\ \A i \in 1..Len(uploadQueue) : uploadQueue[i].retries < 3
  /\ drain.task.retries < 3
  /\ \A id \in TaskIds :
       failLog[id] # <<>> =>
         /\ Len(failLog[id]) = 1
         /\ failLog[id][1] <= 3
         /\ id \notin QueueIds
         /\ drain.task.id # id
         /\ id \notin done

\* C3 witness: a task used up its three attempts and its failure was shown.
C3_Witness == \E id \in TaskIds : failLog[id] = <<3>>

\* C4 (as claimed): every task that enters the upload queue eventually leaves
\* it, uploaded or with its terminal failure shown.
C4_EveryTaskLeaves ==
  \A id \in TaskIds :
    (id \in QueueIds) ~> (id \in done \/ failLog[id] # <<>>)

\* C5 (as claimed): after disconnect(), until a caller invokes the manager
\* again, no reconnect timer is pending and no connect attempt starts.
C5_NoReconnectAfterDisconnect ==
  [][(intentional /\ intentional')
       => /\ ~reconnectTimer'
          /\ {k \in conns' : k.pc = "access"} \subseteq conns]_vars

\* C6 (as claimed): at most one transport client is open.
C6_OneOpenClient == Cardinality(OpenClients) <= 1

\* C7: the status is never connected and connecting at once.
C7_StatusExclusive == ~(connected /\ connecting)

\* C7 witness: a connect() succeeded while another connect() call is still
\* suspended in its handshake.
C7_Witness == connected /\ conns # {}

\* C8 (as claimed): at most one transport operation of the drain loop, the
\* delete requests and sync/download is pending on a client.
C8_OneOperationInFlight == \A c \in Clients : SharedOpsOn(c) <= 1

\* C9: whenever a transfer attempt of a task starts, every task that waits in
\* the queue was enqueued after it: first attempts follow the enqueue order
\* and a requeued task is attempted again before the tasks behind it.
C9_AttemptOrder ==
  [][(drain'.task.id # 0 /\ drain'.task.id # drain.task.id)
       => \A i \in 1..Len(uploadQueue') :
            uploadQueue'[i].id > drain'.task.id]_vars

\* C9 witness: a requeued task is attempted again while a task enqueued
\* after it waits.
C9_Witness == Transferring /\ drain.task.retries > 0 /\ uploadQueue # <<>>


TimersOf(path) == {h \in Handles : timers[h] = path}

\* C10: a path has at most one armed debounce timer, the one its map entry
\* names; the events of a burst lead to no uploadFile call while the timer is
\* pending and to exactly one once it fired.
C10_OneUploadPerBurst ==
  \A p \in Paths :
    /\ Cardinality(TimersOf(p)) <= 1
    /\ TimersOf(p) = {h \in Handles : h = uploadDebounce[p]}
    /\ events[p] > 0 => fired[p] = (IF Pending(p) THEN 0 ELSE 1)

\* C10 witness: a burst of several events ended with its single call.
C10_Witness == \E p \in Paths : events[p] >= 2 /\ fired[p] = 1

\* C11: a save of a path whose debounce timer is pending disarms that timer
\* (no timer for the path is left to fire), deletes the map entry and makes
\* exactly one uploadFile call for the path in the same run.
C11_SaveCancelsTimer ==
  [][\A p \in Paths :
       (last'.op = "save" /\ last'.path = p /\ uploadDebounce[p] # 0)
         => /\ timers'[uploadDebounce[p]] = NoPath
            /\ TimersOf(p)' = {}
            /\ uploadDebounce'[p] = 0
            /\ fired'[p] = 0
            /\ ExistsSync(p) => accepted' = accepted + 1]_vars

\* C11 witness: a save cleared a pending timer and its upload was accepted.
C11_Witness == last.op = "save" /\ last.cleared = 1 /\ accepted >= 1

\* C12: after stop() no debounce timer is armed and the map is empty, so no
\* timer started before the stop can call uploadFile; while the watcher is
\* stopped none is armed either.
C12_NoTimersAfterStop ==
  (last.op = "stop" \/ ~isWatching)
    => /\ \A h \in Handles : timers[h] = NoPath
       /\ \A p \in Paths : uploadDebounce[p] = 0

\* C12 witness: a stop() found pending timers.
C12_Witness == last.op = "stop" /\ last.cleared >= 1

\* C13 (as claimed): no upload task is for a path outside the workspace root.
C13_NoTaskOutsideWorkspace ==
  /\ \A i \in 1..Len(uploadQueue) : uploadQueue[i].path \notin Outside
  /\ drain.task.path \notin Outside

\* the paths of the model that an ignore pattern matches (*.log)
Matched == {LogFile, SyncedLog}

Downloads(r, n) == decided[r][n] \in {"download", "downloaded", "failed"}

\* the run is over and nothing in it failed
RunSucceeded(r) ==
  /\ walk.run > r \/ (walk.run = r /\ walk.pc = "idle")
  /\ \A n \in TreeNames : decided[r][n] \notin {"failed", "mkdirFailed"}

\* C15 (as claimed): after a first run that completed without failure, a
\* second run on the same folders issues no download.
C15_SecondRunDownloadsNothing ==
  RunSucceeded(1) => \A n \in TreeNames : ~Downloads(2, n)

\* C16: a non-ignored remote file with a reported modification time whose
\* local counterpart is a regular file is downloaded exactly when its mtime
\* exceeds the local one by more than 2000 ms or the sizes differ; otherwise
\* it is skipped and the local file is left as it is.
C16_DownloadDecision ==
  [][\A n \in TreeNames :
       (/\ walk.pc = "items" /\ walk.todo # <<>> /\ Head(walk.todo) = n
        /\ decided' # decided
        /\ ~ShouldIgnoreFile(n)
        /\ remoteItems[n].type = "file" /\ remoteItems[n].mtime # NoTime
        /\ localItems[n].type = "file")
         => IF \/ remoteItems[n].mtime - localItems[n].mtime > 2000
               \/ remoteItems[n].size # localItems[n].size
            THEN decided'[walk.run][n] = "download"
            ELSE /\ decided'[walk.run][n] = "skip"
                 /\ localItems' = localItems]_vars

\* C16 witness: a remote file exactly 2000 ms newer than the local one, of
\* the same size, was skipped.
C16_Witness ==
  /\ decided[1][SyncedFile] = "skip"
  /\ localItems[SyncedFile].type = "file"
  /\ remoteItems[SyncedFile].mtime - localItems[SyncedFile].mtime = 2000
  /\ remoteItems[SyncedFile].size = localItems[SyncedFile].size

\* C17: a delete that fails with 550 on a live connection returns true and
\* leaves the connection status, the reconnect timer and the upload queue
\* as they were.
C17_DeleteMissingIsBenign ==
  [][(Len(dels') < Len(dels) /\ delResult'.error = "notfound")
       => /\ delResult'.value = "true"
          /\ UNCHANGED <<connected, connecting, statusError,
                         reconnectTimer, uploadQueue>>]_vars

\* C17 witness: a delete returned after a 550 on a live connection while an
\* upload was waiting or in hand.
C17_Witness ==
  /\ delResult.error = "notfound"
  /\ connected /\ client # 0
  /\ (uploadQueue # <<>> \/ Transferring)

\* C18 (as claimed): a transient error of an upload that has retries left
\* puts the task back at the head of the queue, once, and leaves a reconnect
\* pending (the timer or a connect attempt).
C18_TransientRequeuesOnce ==
  [][(/\ drain.pc = "upload" /\ drain' # drain
      /\ connected /\ ~connected'
      /\ drain.task.retries + 1 < maxRetries)
       => /\ uploadQueue' =
               <<[drain.task EXCEPT !.retries = @ + 1]>> \o uploadQueue
          /\ failLog' = failLog
          /\ reconnectTimer' \/ connecting']_vars

\* C19 (as claimed): at most one sync or download body is executing.
C19_OneSyncBody == Len(syncs) <= 1

\* C20: the exclusivity flag is set only while a sync or download body is
\* running, and a step in which such a call returns leaves the flag clear.
C20_FlagReleased ==
  /\ isSyncingOrDownloading => syncs # <<>>
  /\ syncs = <<>> => ~isSyncingOrDownloading

\* C20 witness: a sync or download lost its connection (the error handler
\* scheduled a reconnect), returned, and the flag is clear.
C20_Witness ==
  /\ ~isSyncingOrDownloading /\ syncs = <<>>
  /\ reconnectTimer /\ client # 0 /\ ~connected


\* C21 (as claimed): no task of the upload queue, waiting or in the loop's
\* hands, is for a file below .git, .vscode or node_modules, whichever of the
\* save handler, the debounce handler and the upload command asked for it.
C21_NothingUnderIgnoredDir ==
  /\ \A i \in 1..Len(uploadQueue) : uploadQueue[i].path \notin UnderIgnoredDir
  /\ drain.task.path \notin UnderIgnoredDir

\* C22 (as claimed): at most one connect() call is suspended in its
\* handshake (client.access() or the test listing).
C22_OneHandshake == Cardinality(conns) <= 1

SessionUnchanged ==
  UNCHANGED <<connected, connecting, statusError, client, cstate,
              reconnectTimer, uploadQueue, conns>>

\* C23: a connect() called by the connect command while the status is
\* Connecting returns false, one called while the status is Connected and the
\* client is open returns true, and either call starts no handshake and
\* leaves the status, the client, the reconnect timer and the queue as they
\* were.
C23_RedundantConnect ==
  [][(sessionCall' # sessionCall /\ sessionCall'.op = "connect")
       => /\ connecting => (sessionCall'.value = "false" /\ SessionUnchanged)
          /\ (connected /\ client # 0 /\ cstate[client] = "open")
               => (sessionCall'.value = "true" /\ SessionUnchanged)]_vars

\* C23 witness: connect() returned false while a handshake was in progress.
C23_Witness ==
  /\ sessionCall = [op |-> "connect", value |-> "false"]
  /\ connecting /\ conns # {}

\* C24: the reconnect timer's callback clears the timer slot; when the
\* session is connected with an open client, or connecting, it does not call
\* connect() and starts no handshake, otherwise it calls connect().
C24_TimerGuard ==
  [][(reconnectTimer /\ sessionCall'.op = "timer")
       => /\ ~reconnectTimer'
          /\ IF IsConnected(S) \/ connecting
             THEN /\ sessionCall'.value = "skipped"
                  /\ UNCHANGED <<connected, connecting, client, conns>>
             ELSE sessionCall'.value # "skipped"]_vars

\* C24 witness: the timer fired while the session was connected or
\* connecting, and connect() was not called.
C24_Witness ==
  /\ sessionCall = [op |-> "timer", value |-> "skipped"]
  /\ ~reconnectTimer

\* C25 (as claimed): a task whose uploadFrom failed with an error that is
\* not transient, on a client that stays open, has its terminal failure shown
\* and is not put back in the queue.
C25_FatalNotRetried ==
  [][(/\ drain.pc = "upload" /\ drain' # drain
      /\ drain.task.id \notin done'
      /\ connected /\ connected'
      /\ cstate[drain.cl] = "open" /\ cstate'[drain.cl] = "open")
       => /\ failLog'[drain.task.id] # <<>>
          /\ drain.task.id \notin QueueIds']_vars

\* C26 (as claimed): a task whose local file was deleted before its first
\* transfer attempt is dropped by that attempt: its terminal failure is
\* shown, it is not put back in the queue and no retry delay starts.
C26_VanishedNotRetried ==
  [][(/\ drain.pc = "upload" /\ drain' # drain
      /\ drain.task.path \in gone /\ drain.task.retries = 0)
       => /\ failLog'[drain.task.id] # <<>>
          /\ drain.task.id \notin QueueIds'
          /\ drain'.pc # "retryDelay"]_vars

\* C27 (as claimed): a transient error of an upload on a client that stays
\* open, for a task whose retry counter is below 3, puts the task back at the
\* head of the queue with its counter incremented, and shows no failure.
C27_RetriesBelowThree ==
  [][(/\ drain.pc = "upload" /\ drain' # drain
      /\ connected /\ ~connected'
      /\ cstate[drain.cl] = "open" /\ cstate'[drain.cl] = "open"
      /\ drain.task.retries < maxRetries)
       => /\ uploadQueue' =
               <<[drain.task EXCEPT !.retries = @ + 1]>> \o uploadQueue
          /\ failLog' = failLog]_vars

\* C28 (as claimed): when an upload fails and the manager's client is closed,
\* the task's terminal failure is shown, the loop returns without taking
\* another task from the queue, and a connect is in progress or the reconnect
\* timer is pending.
C28_ClosedStopsAndReconnects ==
  [][(/\ drain.pc = "upload" /\ drain' # drain
      /\ drain.task.id \notin done'
      /\ client = drain.cl /\ cstate'[drain.cl] # "open")
       => /\ failLog'[drain.task.id] # <<>>
          /\ drain' = IdleDrain /\ ~isProcessingQueue'
          /\ uploadQueue' = uploadQueue
          /\ connecting' \/ reconnectTimer']_vars

\* C29 (as claimed): when the drain loop, back from its retry delay, finds
\* the client of a Connected session closed, the status becomes Disconnected
\* and a connect is in progress or the reconnect timer is pending.
C29_DetectionDisconnects ==
  [][(/\ drain.pc = "retryDelay" /\ drain' # drain
      /\ connected /\ ClientClosed(S))
       => /\ ~connected'
          /\ connecting' \/ reconnectTimer']_vars

\* a deleteFile call was made in the step: it awaits its removal, awaits a
\* connect, or returned false for lack of a connection
DeleteRequested ==
  \/ Len(dels') = Len(dels) + 1
  \/ \E k \in conns' \ conns : k.cont = "delFile"
  \/ delResult'.value = "false"

\* C30 (as claimed): under a configuration with watcher.autoDelete set and
\* watcher.ignoreDelete clear, the local delete of a watched file makes one
\* deleteFile call and adds nothing to the upload queue.
C30_AutoDeleteAlways ==
  [][\A p \in Paths :
       (/\ p \in gone' \ gone /\ Reported(p)
        /\ isWatching /\ config \in Configs
        /\ AutoDelete(config) /\ ~IgnoreDelete(config))
         => DeleteRequested /\ uploadQueue' = uploadQueue]_vars

\* C31: the draining flag is set exactly while the drain loop is suspended at
\* one of its awaits, and neither an enqueue nor a connect that succeeds
\* while the loop is suspended starts a second loop: the loop's position and
\* task in hand are left as they are.
C31_OneDrainLoop ==
  [][/\ isProcessingQueue <=> drain.pc # "idle"
     /\ isProcessingQueue' <=> drain'.pc # "idle"
     /\ (drain.pc # "idle" /\ (nextTask' # nextTask \/ (~connected /\ connected')))
          => drain' = drain]_vars

\* C31 witness: a task was enqueued while the loop was transferring an
\* earlier one, and waits.
C31_Witness ==
  /\ Transferring /\ isProcessingQueue
  /\ uploadQueue # <<>> /\ uploadQueue[1].retries = 0
  /\ uploadQueue[1].id > drain.task.id

\* C32 (as claimed): when the sync loop handles a remote directory that is
\* not ignored, a local directory of that name exists afterwards and the
\* loop recurses into it, also when the local entry was a file.
C32_DirectoryEnsured ==
  [][(/\ walk.pc = "items" /\ walk.todo # <<>> /\ walk' # walk
      /\ remoteItems[Head(walk.todo)].type = "dir"
      /\ ~ShouldIgnoreFile(Head(walk.todo)))
       => /\ localItems'[Head(walk.todo)].type = "dir"
          /\ decided'[walk.run][Head(walk.todo)] \in {"mkdir", "recurse"}]_vars

\* C33: when the sync loop handles a remote file that is not ignored, it
\* starts the download if there is no local entry of that name, or if the
\* local entry is a file and the remote has no modification time, whatever
\* the sizes; if the local entry is a directory it starts no download and
\* leaves the local folder as it is.
C33_FileCases ==
  [][(/\ walk.pc = "items" /\ walk.todo # <<>> /\ walk' # walk
      /\ remoteItems[Head(walk.todo)].type = "file"
      /\ ~ShouldIgnoreFile(Head(walk.todo)))
       => LET n == Head(walk.todo)
          IN /\ (\/ localItems[n].type = "none"
                 \/ localItems[n].type = "file" /\ remoteItems[n].mtime = NoTime)
                  => (walk'.pc = "download" /\ decided'[walk.run][n] = "download")
             /\ localItems[n].type = "dir"
                  => /\ walk'.pc = "items"
                     /\ decided'[walk.run][n] = "conflict"
                     /\ localItems' = localItems]_vars

\* C33 witness: a remote file without modification time, of the size of the
\* local file, was downloaded.
C33_Witness ==
  \E n \in TreeNames :
    /\ remoteItems[n] = [type |-> "file", mtime |-> NoTime, size |-> 100]
    /\ walk.stats[n].type = "file"
    /\ decided[1][n] = "downloaded"

\* the run is over
RunEnded(r) == walk.run > r \/ (walk.run = r /\ walk.pc = "idle")

\* C34: when a run is over, every entry of the listing was handled by it,
\* whichever downloads failed before it: a failed download ends neither the
\* loop nor the run.
C34_FailureSkipsOneFile ==
  \A r \in Runs :
    RunEnded(r) =>
      \A n \in TreeNames : remoteItems[n].type # "none" => decided[r][n] # "none"

\* C34 witness: the download of the first entry failed and the last entry
\* of the same listing was downloaded.
C34_Witness ==
  /\ RunEnded(1)
  /\ decided[1][SyncedFile] = "failed"
  /\ decided[1][SyncedPage] = "downloaded"

\* C35 (as claimed): a syncServerToLocal call shows success only if none of
\* its listings and downloads failed with a transient error or a closed
\* transport.
C35_LossReportsError ==
  [][syncReport' = "success"
       => \E i \in 1..Len(syncs) :
            /\ syncs[i].pc = "local" /\ ~syncs[i].lost
            /\ syncs' = RemoveAt(syncs, i)]_vars

\* C36 (as claimed): the client of a connected session was connected with
\* the host, port and credentials of the current configuration.
C36_ConnectedToCurrentHost ==
  IsConnected(S) => Host(target[client]) = Host(config)

\* C37 (as claimed): the save notification and the change notification of
\* one save of a file lead to one uploadFile call for it.
C37_OneUploadPerSave == accepted <= 1

\* C38 (as claimed): the local delete of a file that the ignore rules match
\* issues no remote delete request.
C38_IgnoredDeleteStaysLocal ==
  [][\A p \in Deleted :
       (p \in gone' \ gone /\ ShouldIgnoreFile(p)) => ~DeleteRequested]_vars

\* C39: the number of armed reconnect timers is one when
\* FTPManager.reconnectTimer is set and zero otherwise, and no reconnect
\* timer is pending while the status is Connecting.
C39_OneReconnectTimer ==
  /\ pendingReconnects = (IF reconnectTimer THEN 1 ELSE 0)
  /\ ~(reconnectTimer /\ connecting)

\* a timer armed by a failed connect is pending, the upload queue holding a
\* task whose failure asked for another one
C39_Witness ==
  /\ reconnectTimer /\ pendingReconnects = 1
  /\ statusError /\ ~connecting
  /\ uploadQueue # <<>> /\ uploadQueue[1].retries > 0

\* C40: while the configuration is null the status is neither Connected nor
\* Connecting and no connect() call gets to client.access(); the connect
\* command returns false and changes nothing; a reconnect timer that fires
\* makes a connect() call that returns false, and no timer is pending after it.
C40_NullConfigIsInert ==
  [][/\ config' = 0 =>
          /\ ~connected' /\ ~connecting'
          /\ conns' \subseteq conns
     /\ (config = 0 /\ sessionCall'.op = "connect") =>
          /\ sessionCall'.value = "false"
          /\ UNCHANGED <<config, client, cstate, connected, connecting,
                         statusError, reconnectTimer, pendingReconnects,
                         conns, uploadQueue>>
     /\ (config = 0 /\ sessionCall'.op = "timer") =>
          /\ sessionCall'.value = "false"
          /\ ~reconnectTimer' /\ pendingReconnects' = 0
          /\ conns' = conns /\ client' = client]_vars

\* the configuration was removed during a handshake, the connect in flight
\* failed and armed the timer, and the timer has fired
C40_Witness ==
  /\ config = 0 /\ sessionCall = [op |-> "timer", value |-> "false"]
  /\ statusError /\ client = 0 /\ conns = {}
====
